---- MODULE Spec2Model ----
(***************************************************************************)
(* Model of the Gateway of CookSmart (src/backend/gateway.py): the         *)
(* per-upstream CircuitBreaker, the retrying executor                      *)
(* Gateway._request_with_retry and the one-attempt upload adapter          *)
(* Gateway.cloudinary_upload_image, run by concurrent asyncio tasks.       *)
(*                                                                         *)
(* "now" is the value of time.monotonic(), counted in whole ticks; the     *)
(* breaker's cooldown is a number of ticks.  A backoff sleep is recorded   *)
(* by its duration (a multiple of retry_backoff_seconds) and may end at    *)
(* any later point: how many ticks it spans is left open.                  *)
(* The callers are coroutines of one event loop: a task runs from one      *)
(* suspension to the next without interleaving.  It suspends in the        *)
(* network request and in the backoff sleep; the breaker's lock is never   *)
(* held across an await, so "async with self._lock" never waits and the    *)
(* breaker methods run inside the step that calls them (Spec,             *)
(* SpecConcurrent, SpecCredentials, SpecParse).  SpecLocked runs the same  *)
(* operations with the lock and every statement of a breaker method as     *)
(* steps of their own.                                                     *)
(* A response body is represented by its length in characters, for the     *)
(* snippets of the error messages, and by its lines of JSON documents and  *)
(* the keys they carry, for the parsing of the three operations.           *)
(***************************************************************************)
EXTENDS Integers, Sequences, FiniteSets, TLC

\* ------------------------------------------------------------------ bounds
MaxRetries   == 2    \* GatewayConfig.retries ranges over 0..MaxRetries
MaxThreshold == 2    \* GatewayConfig.circuit_fail_threshold over 1..MaxThreshold
Cooldown     == 2    \* GatewayConfig.circuit_cooldown_seconds, in ticks of "now"
BackoffUnit  == 2    \* GatewayConfig.retry_backoff_seconds, in the unit of "sleeps"
MaxTime      == 4    \* the clock stops advancing at MaxTime
MaxCalls     == 2    \* operations a caller starts, one after the other
LiveMaxTime  == 2    \* the clock of the runs under fair scheduling stops here

\* --------------------------------------------------------- program constants
SNIPPET_LIMIT    == 512
CLOUDINARY_SNIPPET_LIMIT == 256

None == "None"

\* no exception / no value
NoExc == [kind |-> "None"]

Tasks    == {"t1", "t2"}
Breakers == {"ollama", "cloudinary"}
Ops      == {"ollama_generate", "ollama_embeddings", "cloudinary_upload_image"}

\* the statuses an upstream may answer with, and the httpx exceptions a
\* request may raise
StatusCodes == {200, 201, 400, 408, 429, 500, 501, 502, 503, 504}
HttpxErrors == {"ReadTimeout", "ConnectTimeout", "ConnectError"}
BodyLens    == {100, 600}

\* the retry counts of the runs with two callers
ConcurrentRetries == {0, 1}

\* a credential of GatewayConfig: the empty default, or a value
Credentials == {"", "set"}

TRANSIENT_STATUS == {408, 429, 500, 502, 503, 504}

EXPECTED_STATUS == 200

\* httpx.ReadTimeout is the only exception the first except clause catches;
\* every member of HttpxErrors is an httpx.HTTPError
IsReadTimeout(e) == e = "ReadTimeout"

\* how _request_with_retry and cloudinary_upload_image tell the outcomes of a
\* request apart: the two status tests and the two except clauses
StatusKind(status) ==
    IF status = EXPECTED_STATUS THEN "expected"
    ELSE IF status \in TRANSIENT_STATUS THEN "transient"
    ELSE "other"

ExceptionKind(e) == IF IsReadTimeout(e) THEN "ReadTimeout" ELSE "HTTPError"

\* A JSON value as ollama_embeddings looks at it: absent from the object, a
\* list with its items, or a value that is no list
Absent == [type |-> "absent", items |-> << >>]

Null == [type |-> "null", items |-> << >>]

List(items) == [type |-> "list", items |-> items]

\* a vector of d numbers
Vec(d) == [i \in 1..d |-> 0]

\* A response body is a sequence of lines, each one JSON document or text
\* that is not JSON; a JSON object is known by the keys it carries, each with
\* a value of the type its reader expects (a non-empty text for "response"),
\* and by the values of its "embeddings" and "embedding" keys.
NotJson == [json |-> FALSE, keys |-> {}, embeddings |-> Absent, embedding |-> Absent]

Object(keys) ==
    [json |-> TRUE, keys |-> keys,
     embeddings |-> IF "embeddings" \in keys THEN List(<<Vec(2)>>) ELSE Absent,
     embedding  |-> IF "embedding" \in keys THEN List(Vec(2)) ELSE Absent]

\* an object with the given values of "embeddings" and "embedding"
EmbeddingsObject(es, e) ==
    [json |-> TRUE,
     keys |-> {k \in {"embeddings"} : es # Absent} \cup {k \in {"embedding"} : e # Absent},
     embeddings |-> es, embedding |-> e]

\* the answers of the embeddings endpoint: no list, an empty list, one vector,
\* two vectors, two vectors of different lengths; no vector, an empty one, one
EmbeddingsBodies ==
    {<<EmbeddingsObject(es, e)>> :
        es \in {Absent, Null, List(<< >>), List(<<Vec(2)>>),
                List(<<Vec(2), Vec(2)>>), List(<<Vec(2), Vec(3)>>)},
        e \in {Absent, Null, List(<< >>), List(Vec(3))}}

\* EmbeddingsRequest.input: lists of none, one, two and three strings, a
\* string being the sequence of its characters
InputLists ==
    {<< >>, <<<<"t", "a">>>>, <<<<"a">>, <<"b">>>>, <<<<"a">>, <<"b", "c">>, << >>>>}

\* the inputs an operation is called with
InputsOf(o) == IF o = "ollama_embeddings" THEN InputLists ELSE {<< >>}

\* one text to embed
ProperInputs(o) == IF o = "ollama_embeddings" THEN {<<<<"t", "a">>>>} ELSE {<< >>}

Bodies ==
    {<<NotJson>>, <<Object({})>>, <<Object({"response"})>>,
     <<Object({"embeddings"})>>, <<Object({"embedding"})>>,
     <<Object({"embeddings", "embedding"})>>,
     <<Object({"public_id"})>>, <<Object({"secure_url"})>>,
     <<Object({"public_id", "secure_url"})>>,
     <<Object({"response"}), Object({"response"})>>,
     <<Object({"response"}), Object({})>>,
     <<Object({"response"}), NotJson>>}

\* the bodies told apart for a status: only a body that is parsed matters
BodiesOf(status) ==
    IF status = EXPECTED_STATUS THEN Bodies \cup EmbeddingsBodies ELSE {<<NotJson>>}

\* the body an upstream that works sends with the expected status
ProperBodies(o, status) ==
    IF status # EXPECTED_STATUS THEN {<<NotJson>>}
    ELSE IF o = "ollama_generate" THEN {<<Object({"response"})>>}
    ELSE IF o = "ollama_embeddings" THEN {<<Object({"embeddings"})>>}
    ELSE {<<Object({"public_id", "secure_url"})>>}

\* GenerateRequest.stream
StreamFlags(o) == IF o = "ollama_generate" THEN BOOLEAN ELSE {FALSE}

\* GatewayError and its subclasses
GatewayErrors ==
    {"GatewayError", "UpstreamTimeout", "UpstreamUnavailable", "BadUpstreamResponse"}

\* resp.json(): the body must be one JSON document
IsJson(body) == Len(body) = 1 /\ body[1].json

\* BadUpstreamResponse raised for a body that fails to parse
ParseFailure == [kind |-> "BadUpstreamResponse", snippet |-> 0]

\* x.get("response", ""): the text of the object, or the default
get_response(x) == IF "response" \in x.keys THEN "text" ELSE ""

\* the parsing of ollama_generate; the reply holds the texts that are joined
generate_parse(stream, body) ==
    IF stream
    THEN IF \A i \in 1..Len(body) : body[i].json
         THEN [kind |-> "GenerateResponse",
               response |-> [i \in 1..Len(body) |-> get_response(body[i])]]
         ELSE ParseFailure
    ELSE IF IsJson(body)
         THEN [kind |-> "GenerateResponse", response |-> <<get_response(body[1])>>]
         ELSE ParseFailure

\* "isinstance(v, list) and v": a list that is not empty
NonEmptyList(v) == v.type = "list" /\ v.items # << >>

\* variant of the parsing that looks at "embedding" first
embeddings_parse_single_first(body) ==
    IF ~IsJson(body) THEN ParseFailure
    ELSE IF NonEmptyList(body[1].embedding)
    THEN [kind |-> "EmbeddingsResponse", embeddings |-> <<body[1].embedding.items>>]
    ELSE IF NonEmptyList(body[1].embeddings)
    THEN [kind |-> "EmbeddingsResponse", embeddings |-> body[1].embeddings.items]
    ELSE ParseFailure

\* the parsing of ollama_embeddings: "embeddings" first, then "embedding"
\* wrapped in a list; what the try block raises is raised again as
\* BadUpstreamResponse
embeddings_parse(body) ==
    IF ~IsJson(body) THEN ParseFailure
    ELSE IF NonEmptyList(body[1].embeddings)
    THEN [kind |-> "EmbeddingsResponse", embeddings |-> body[1].embeddings.items]
    ELSE IF NonEmptyList(body[1].embedding)
    THEN [kind |-> "EmbeddingsResponse", embeddings |-> <<body[1].embedding.items>>]
    ELSE ParseFailure

\* variant of the separator: a newline only
SeparatorNewline == <<"\n">>

\* " \n": a space, then a newline
Separator == <<" ", "\n">>

RECURSIVE Join(_, _)
\* sep.join(strings)
Join(sep, strings) ==
    IF strings = << >> THEN << >>
    ELSE IF Len(strings) = 1 THEN strings[1]
    ELSE strings[1] \o sep \o Join(sep, Tail(strings))

NoPayload == [input |-> << >>, prompt |-> << >>]

\* the request body of ollama_embeddings, its "model" aside
embeddings_payload(input) ==
    IF Len(input) = 1
    THEN [input |-> input[1], prompt |-> input[1]]
    ELSE [input |-> input, prompt |-> Join(Separator, input)]

\* the parsing of cloudinary_upload_image, outside any except clause that
\* would catch what it raises
upload_parse(body) ==
    IF ~IsJson(body) THEN [kind |-> "JSONDecodeError"]
    ELSE IF "public_id" \notin body[1].keys \/ "secure_url" \notin body[1].keys
    THEN [kind |-> "KeyError"]
    ELSE [kind |-> "CloudinaryUploadResponse"]

\* what an operation makes of the response its request stage returned
Parse(c, body) ==
    IF c.pc = "done" /\ c.result.kind = "Response"
    THEN [c EXCEPT !.body = body,
                   !.reply =
            CASE c.op = "ollama_generate"   -> generate_parse(c.stream, body)
              [] c.op = "ollama_embeddings" -> embeddings_parse(body)
              [] OTHER                      -> upload_parse(body)]
    ELSE c

\* variant of the slice: the whole body
SliceWhole(len, n) == len

\* text[:n] of a body of len characters
Slice(len, n) == IF len <= n THEN len ELSE n

VARIABLES
    cfg,      \* GatewayConfig (frozen)
    app,      \* the application lifespan and the Gateway's shared HTTP client
    now,      \* time.monotonic()
    cb,       \* the two CircuitBreaker instances: _fail_count, _open_until
    lock,     \* CircuitBreaker._lock of each breaker: the task holding it, or None
    call,     \* per task: the position and locals of the Gateway operation it runs
    ev,       \* the last breaker method that ran (history)
    streak,   \* per breaker: report_failure() calls since the last
              \* report_success() (history)
    budget    \* per task: the operations it may still start

vars == <<cfg, app, now, cb, lock, call, ev, streak, budget>>

\* ------------------------------------------------------------ CircuitBreaker
ClosedBreaker == [fail_count |-> 0, open_until |-> 0]

\* variants of the open test of allow(): rejecting up to and including
\* open-until, and admitting one tick early
allow_raises_inclusive(s, t) == s.open_until >= t

allow_raises_early(s, t) == s.open_until > t + 1

\* variant of allow() that never raises
allow_raises_never(s, t) == FALSE

\* allow(): the raise of lines 87-88
allow_raises(s, t) == s.open_until > t

\* variant of the reset that clears open-until and keeps the counter
allow_keeps_counter(s, t) ==
    IF s.open_until # 0 /\ t >= s.open_until THEN [s EXCEPT !.open_until = 0] ELSE s

\* allow(): the reset of lines 89-91
allow(s, t) ==
    IF s.open_until # 0 /\ t >= s.open_until THEN ClosedBreaker ELSE s

\* variant of report_success() that resets the counter only
report_success_counter_only(s) == [s EXCEPT !.fail_count = 0]

report_success(s) == [fail_count |-> 0, open_until |-> 0]

\* variant of report_failure() that opens one failure before the threshold
report_failure_opens_early(s, t) ==
    LET c == s.fail_count + 1
    IN  [fail_count |-> c,
         open_until |-> IF c + 1 >= cfg.circuit_fail_threshold
                        THEN t + cfg.circuit_cooldown_seconds
                        ELSE s.open_until]

\* variant of report_failure() that opens only above the threshold
report_failure_opens_late(s, t) ==
    LET c == s.fail_count + 1
    IN  [fail_count |-> c,
         open_until |-> IF c > cfg.circuit_fail_threshold
                        THEN t + cfg.circuit_cooldown_seconds
                        ELSE s.open_until]

\* variant of report_failure() that leaves an open-until already set alone
report_failure_arms_once(s, t) ==
    LET c == s.fail_count + 1
    IN  [fail_count |-> c,
         open_until |-> IF c >= cfg.circuit_fail_threshold /\ s.open_until = 0
                        THEN t + cfg.circuit_cooldown_seconds
                        ELSE s.open_until]

report_failure(s, t) ==
    LET c == s.fail_count + 1
    IN  [fail_count |-> c,
         open_until |-> IF c >= cfg.circuit_fail_threshold
                        THEN t + cfg.circuit_cooldown_seconds
                        ELSE s.open_until]

\* ------------------------------------------------------------------- Gateway
\* variant with one breaker shared by all three operations
BreakerOfShared(o) == "ollama"

\* the breaker an operation goes through
BreakerOf(o) == IF o = "cloudinary_upload_image" THEN "cloudinary" ELSE "ollama"

IsExecutorOp(o) == o \in {"ollama_generate", "ollama_embeddings"}

\* variant of the attempt count: one attempt too many
tries_one_more == cfg.retries + 2

\* tries = self.cfg.retries + 1
tries == cfg.retries + 1

\* retry_backoff_seconds * (attempt + 1)
backoff(attempt) == cfg.retry_backoff_seconds * (attempt + 1)

\* variant of the credentials test that looks at the cloud name only
credentials_missing_name_only == cfg.cloudinary_cloud_name = ""

\* "not (cloud_name and api_key and api_secret)": an empty string is false
credentials_missing ==
    ~(/\ cfg.cloudinary_cloud_name # ""
      /\ cfg.cloudinary_api_key # ""
      /\ cfg.cloudinary_api_secret # "")

ConfigError == [kind |-> "GatewayError"]

Unavailable == [kind |-> "UpstreamUnavailable", circuit_open |-> FALSE]

CircuitOpen == [kind |-> "UpstreamUnavailable", circuit_open |-> TRUE]

Timeout == [kind |-> "UpstreamTimeout"]

IdleCall ==
    [pc       |-> "idle",
     op       |-> None,
     stream   |-> FALSE,    \* req.stream of ollama_generate
     input    |-> << >>,    \* req.input of ollama_embeddings
     payload  |-> NoPayload, \* the request body of ollama_embeddings
     body     |-> <<NotJson>>, \* the body the operation parsed (history)
     client_opened |-> 0,   \* per-call clients the upload opened (history)
     client_closed |-> 0,   \* per-call clients it closed (history)
     attempt  |-> 0,        \* loop index of _request_with_retry
     last_exc |-> NoExc,
     result   |-> NoExc,    \* what the request stage returned or raised
     reply    |-> NoExc,    \* what the operation returns or raises to its caller
     seen     |-> 0,        \* _fail_count as read by "self._fail_count += 1"
     cont     |-> NoExc,    \* the call as it goes on once its breaker method returns
     attempts |-> 0,        \* network requests started by this call (history)
     outcomes |-> << >>,    \* the kind of outcome of each request (history)
     sleeps   |-> << >>,    \* durations of the sleeps of this call (history)
     nfail    |-> 0,        \* report_failure() calls of this call (history)
     nsucc    |-> 0]        \* report_success() calls of this call (history)

\* an operation is called: its locals before its first await
Request(o, stream, input) ==
    [IdleCall EXCEPT !.op = o, !.stream = stream, !.input = input,
                     !.payload = IF o = "ollama_embeddings"
                                 THEN embeddings_payload(input) ELSE NoPayload]

\* the record kept of a breaker method: the breaker, its state before, the
\* time, and for allow() whether it returned
Event(o, b, admitted) ==
    [op |-> o, b |-> b, pre |-> cb[b], at |-> now, admitted |-> admitted]

NoEvent == [op |-> None, b |-> None, pre |-> ClosedBreaker, at |-> 0,
            admitted |-> FALSE]

\* the lifespan before "app.state.gateway = Gateway(GatewayConfig())"; opened
\* and closed count the shared clients created and the aclose() calls, error
\* tells an exit by an exception
NotStarted == [phase |-> "starting", opened |-> 0, closed |-> 0, error |-> FALSE]

\* the lifespan at its "yield": the Gateway built, its client open
Serving == [phase |-> "serving", opened |-> 1, closed |-> 0, error |-> FALSE]

\* the breakers as Gateway.__init__ builds them, nothing in flight
Fresh ==
    /\ now = 1
    /\ cb = [b \in Breakers |-> ClosedBreaker]
    /\ lock = [b \in Breakers |-> None]
    /\ call = [t \in Tasks |-> IdleCall]
    /\ ev = NoEvent
    /\ streak = [b \in Breakers |-> 0]

\* Gateway.__init__ has run and the application serves requests
Constructed == Fresh /\ app = Serving

\* one caller issuing operations one after the other, under every
\* configuration within the bounds
Init ==
    /\ cfg \in [retries : 0..MaxRetries,
                circuit_fail_threshold : 1..MaxThreshold,
                circuit_cooldown_seconds : {Cooldown},
                retry_backoff_seconds : {BackoffUnit},
                cloudinary_cloud_name : {"set"},
                cloudinary_api_key : {"set"},
                cloudinary_api_secret : {"set"}]
    /\ Constructed
    /\ budget = [t \in Tasks |-> IF t = "t1" THEN MaxCalls ELSE 0]

\* two callers with one operation each, in flight at the same time
InitConcurrent ==
    /\ cfg \in [retries : ConcurrentRetries,
                circuit_fail_threshold : 1..MaxThreshold,
                circuit_cooldown_seconds : {Cooldown},
                retry_backoff_seconds : {BackoffUnit},
                cloudinary_cloud_name : {"set"},
                cloudinary_api_key : {"set"},
                cloudinary_api_secret : {"set"}]
    /\ Constructed
    /\ budget = [t \in Tasks |-> 1]

\* an exception of the request stage leaves the operation as it is
Raise(c, exc) == [c EXCEPT !.pc = "done", !.result = exc, !.reply = exc]

Return(c, value) == [c EXCEPT !.pc = "done", !.result = value]

\* self._client.request(...) / c.post(...): one network attempt starts
\* the upload opens a client of its own for the request
Send(c) ==
    [c EXCEPT !.pc = "awaiting", !.attempts = @ + 1,
              !.client_opened = IF c.op = "cloudinary_upload_image" THEN @ + 1 ELSE @]

\* asyncio.sleep(retry_backoff_seconds * (attempt + 1))
Sleep(c) == [c EXCEPT !.pc = "sleep", !.sleeps = Append(@, backoff(c.attempt))]

\* variant of the callers of allow(): the request is sent before the
\* rejection propagates
AllowAfterSend(c) ==
    IF allow_raises(cb[BreakerOf(c.op)], now) THEN Raise(Send(c), CircuitOpen)
    ELSE Send(c)

\* "await cb.allow()" as the operations use it: a rejection propagates out of
\* the operation, otherwise the first request is sent
AllowThenSend(c) ==
    IF allow_raises(cb[BreakerOf(c.op)], now) THEN Raise(c, CircuitOpen)
    ELSE Send(c)

\* A caller starts ollama_generate / ollama_embeddings / cloudinary_upload_image
\* and runs to its first suspension.  The upload adapter checks its
\* credentials before it consults its breaker.
Call(t, o, stream, input) ==
    LET b == BreakerOf(o)
        misconfigured == o = "cloudinary_upload_image" /\ credentials_missing
    IN  /\ app.phase = "serving"
        /\ call[t].pc \in {"idle", "done"}
        /\ budget[t] > 0
        /\ budget' = [budget EXCEPT ![t] = @ - 1]
        /\ LET c == Request(o, stream, input)
           IN  call' = [call EXCEPT ![t] =
                  IF misconfigured THEN Raise(c, ConfigError)
                  ELSE AllowThenSend(c)]
        /\ cb' = IF misconfigured \/ allow_raises(cb[b], now) THEN cb
                 ELSE [cb EXCEPT ![b] = allow(@, now)]
        /\ ev' = IF misconfigured THEN ev
                 ELSE Event("allow", b, ~allow_raises(cb[b], now))
        /\ UNCHANGED <<cfg, app, now, lock, streak>>

\* variant of the transient branch: the attempt is reported to the breaker
ExecutorResponseTransientReported(c, status, len) ==
    IF status = EXPECTED_STATUS
    THEN Return([c EXCEPT !.nsucc = @ + 1], [kind |-> "Response", status |-> status])
    ELSE IF status \in TRANSIENT_STATUS
    THEN Sleep([c EXCEPT !.last_exc = Unavailable, !.nfail = @ + 1])
    ELSE Raise([c EXCEPT !.nfail = @ + 1],
               [kind |-> "BadUpstreamResponse", snippet |-> Slice(len, SNIPPET_LIMIT)])

\* variant of the status tests: every 2xx status is returned as a success
ExecutorResponseAny2xx(c, status, len) ==
    IF status >= 200 /\ status < 300
    THEN Return([c EXCEPT !.nsucc = @ + 1], [kind |-> "Response", status |-> status])
    ELSE IF status \in TRANSIENT_STATUS
    THEN Sleep([c EXCEPT !.last_exc = Unavailable])
    ELSE Raise([c EXCEPT !.nfail = @ + 1],
               [kind |-> "BadUpstreamResponse", snippet |-> Slice(len, SNIPPET_LIMIT)])

\* the body of the try block of _request_with_retry for a response
ExecutorResponse(c, status, len) ==
    IF status = EXPECTED_STATUS
    THEN Return([c EXCEPT !.nsucc = @ + 1], [kind |-> "Response", status |-> status])
    ELSE IF status \in TRANSIENT_STATUS
    THEN Sleep([c EXCEPT !.last_exc = Unavailable])
    ELSE Raise([c EXCEPT !.nfail = @ + 1],
               [kind |-> "BadUpstreamResponse", snippet |-> Slice(len, SNIPPET_LIMIT)])

\* variant of the except clauses: only read timeouts are reported to the
\* breaker
ExecutorExceptionTimeoutOnly(c, e) ==
    IF IsReadTimeout(e)
    THEN Sleep([c EXCEPT !.last_exc = Timeout, !.nfail = @ + 1])
    ELSE Sleep([c EXCEPT !.last_exc = Unavailable])

\* the except clauses of _request_with_retry
ExecutorException(c, e) ==
    IF IsReadTimeout(e)
    THEN Sleep([c EXCEPT !.last_exc = Timeout, !.nfail = @ + 1])
    ELSE Sleep([c EXCEPT !.last_exc = Unavailable, !.nfail = @ + 1])

\* variant of the upload adapter that sleeps and tries again after a
\* transient status
UploadResponseRetries(c, status, len) ==
    IF status = 200
    THEN Return([c EXCEPT !.nsucc = @ + 1],
                [kind |-> "Response", status |-> status])
    ELSE IF status \in TRANSIENT_STATUS
    THEN Sleep([c EXCEPT !.nfail = @ + 1, !.last_exc = Unavailable])
    ELSE Raise([c EXCEPT !.nfail = @ + 1],
               [kind |-> "BadUpstreamResponse",
                snippet |-> Slice(len, CLOUDINARY_SNIPPET_LIMIT)])

\* the "async with httpx.AsyncClient(...) as c" block is left, by the response
\* or by an exception: the per-call client is closed
Exited(c) == [c EXCEPT !.client_closed = @ + 1]

\* the try block of cloudinary_upload_image for a response
UploadResponse(c, status, len) ==
    IF status = 200
    THEN Return(Exited([c EXCEPT !.nsucc = @ + 1]),
                [kind |-> "Response", status |-> status])
    ELSE IF status \in TRANSIENT_STATUS
    THEN Raise(Exited([c EXCEPT !.nfail = @ + 1]), Unavailable)
    ELSE Raise(Exited([c EXCEPT !.nfail = @ + 1]),
               [kind |-> "BadUpstreamResponse",
                snippet |-> Slice(len, CLOUDINARY_SNIPPET_LIMIT)])

\* the except clauses of cloudinary_upload_image
UploadException(c, e) ==
    IF IsReadTimeout(e)
    THEN Raise(Exited([c EXCEPT !.nfail = @ + 1]), Timeout)
    ELSE Raise(Exited([c EXCEPT !.nfail = @ + 1]), Unavailable)

\* the breaker method a step of a call ran, read off its report counters
Reported(c, d) ==
    IF d.nsucc > c.nsucc THEN "report_success"
    ELSE IF d.nfail > c.nfail THEN "report_failure"
    ELSE None

\* the effect of that method on the call's breaker
Report(c, d) ==
    LET b == BreakerOf(c.op)
        m == Reported(c, d)
    IN  /\ cb' = IF m = "report_success" THEN [cb EXCEPT ![b] = report_success(@)]
                 ELSE IF m = "report_failure" THEN [cb EXCEPT ![b] = report_failure(@, now)]
                 ELSE cb
        /\ ev' = IF m = None THEN ev ELSE Event(m, b, TRUE)
        /\ streak' = IF m = "report_success" THEN [streak EXCEPT ![b] = 0]
                     ELSE IF m = "report_failure" THEN [streak EXCEPT ![b] = @ + 1]
                     ELSE streak

\* the request completes with a response; an operation that gets the
\* response back from its request stage parses the body
ReceiveResponse(t, status, len, body) ==
    LET c == [call[t] EXCEPT !.outcomes = Append(@, StatusKind(status))]
        d == Parse(IF IsExecutorOp(c.op) THEN ExecutorResponse(c, status, len)
                                         ELSE UploadResponse(c, status, len), body)
    IN  /\ call[t].pc = "awaiting"
        /\ call' = [call EXCEPT ![t] = d]
        /\ Report(c, d)
        /\ UNCHANGED <<cfg, app, now, lock, budget>>

\* the request raises an httpx exception
ReceiveException(t, e) ==
    LET c == [call[t] EXCEPT !.outcomes = Append(@, ExceptionKind(e))]
        d == IF IsExecutorOp(c.op) THEN ExecutorException(c, e)
                                   ELSE UploadException(c, e)
    IN  /\ call[t].pc = "awaiting"
        /\ call' = [call EXCEPT ![t] = d]
        /\ Report(c, d)
        /\ UNCHANGED <<cfg, app, now, lock, budget>>

\* variant of line 167: a timeout recorded by any attempt wins
NextAttemptFirstTimeout(c) ==
    IF c.attempt + 1 < tries
    THEN Send([c EXCEPT !.attempt = @ + 1])
    ELSE Raise([c EXCEPT !.attempt = @ + 1],
               IF "ReadTimeout" \in {c.outcomes[i] : i \in 1..Len(c.outcomes)}
               THEN Timeout
               ELSE IF c.last_exc # NoExc THEN c.last_exc ELSE Unavailable)

\* the end of "for attempt in range(tries)": the next attempt, or line 167
NextAttempt(c) ==
    IF c.attempt + 1 < tries
    THEN Send([c EXCEPT !.attempt = @ + 1])
    ELSE Raise([c EXCEPT !.attempt = @ + 1],
               IF c.last_exc # NoExc THEN c.last_exc ELSE Unavailable)

\* asyncio.sleep returns
Wake(t) ==
    /\ call[t].pc = "sleep"
    /\ call' = [call EXCEPT ![t] = NextAttempt(call[t])]
    /\ UNCHANGED <<cfg, app, now, cb, lock, ev, streak, budget>>

\* time passes
Tick ==
    /\ now < MaxTime
    /\ now' = now + 1
    /\ UNCHANGED <<cfg, app, cb, lock, call, ev, streak, budget>>

\* the operations against upstreams whose bodies parse, without streaming:
\* what an operation makes of a body comes after its last breaker method and
\* its last sleep
Next ==
    \/ \E t \in Tasks, o \in Ops :
          \E input \in ProperInputs(o) : Call(t, o, FALSE, input)
    \/ \E t \in Tasks, s \in StatusCodes, len \in BodyLens :
          \E body \in ProperBodies(call[t].op, s) : ReceiveResponse(t, s, len, body)
    \/ \E t \in Tasks, e \in HttpxErrors : ReceiveException(t, e)
    \/ \E t \in Tasks : Wake(t)
    \/ Tick

Spec == Init /\ [][Next]_vars

SpecConcurrent == InitConcurrent /\ [][Next]_vars

\* one caller, every combination of empty and set upload credentials
InitCredentials ==
    /\ cfg \in [retries : ConcurrentRetries,
                circuit_fail_threshold : 1..MaxThreshold,
                circuit_cooldown_seconds : {Cooldown},
                retry_backoff_seconds : {BackoffUnit},
                cloudinary_cloud_name : Credentials,
                cloudinary_api_key : Credentials,
                cloudinary_api_secret : Credentials]
    /\ Constructed
    /\ budget = [t \in Tasks |-> IF t = "t1" THEN MaxCalls ELSE 0]

SpecCredentials == InitCredentials /\ [][Next]_vars

\* lifespan: "app.state.gateway = Gateway(GatewayConfig())", up to the yield
Startup ==
    /\ app.phase = "starting"
    /\ app' = [app EXCEPT !.phase = "serving", !.opened = @ + 1]
    /\ UNCHANGED <<cfg, now, cb, lock, call, ev, streak, budget>>

\* variant of the lifespan without "finally": aclose() after a yield that
\* returns only
lifespan_exit_on_return(a, error) ==
    [a EXCEPT !.phase = "stopped", !.error = error,
              !.closed = IF error THEN @ ELSE @ + 1]

\* lifespan: the yield returns or raises, and the finally clause awaits
\* gateway.aclose()
lifespan_exit(a, error) ==
    [a EXCEPT !.phase = "stopped", !.error = error, !.closed = @ + 1]

\* the application shuts down, or an exception is raised into the lifespan,
\* with no operation in flight
Shutdown(error) ==
    /\ app.phase = "serving"
    /\ \A t \in Tasks : call[t].pc \in {"idle", "done"}
    /\ app' = lifespan_exit(app, error)
    /\ UNCHANGED <<cfg, now, cb, lock, call, ev, streak, budget>>

NextLifespan ==
    \/ Startup
    \/ \E error \in BOOLEAN : Shutdown(error)
    \/ \E t \in Tasks, o \in Ops :
          \E input \in ProperInputs(o) : Call(t, o, FALSE, input)
    \/ \E t \in Tasks, s \in StatusCodes, len \in BodyLens :
          \E body \in ProperBodies(call[t].op, s) : ReceiveResponse(t, s, len, body)
    \/ \E t \in Tasks, e \in HttpxErrors : ReceiveException(t, e)
    \/ \E t \in Tasks : Wake(t)
    \/ Tick

\* the application from before its startup, one caller
InitLifespan ==
    /\ cfg \in [retries : ConcurrentRetries,
                circuit_fail_threshold : {MaxThreshold},
                circuit_cooldown_seconds : {Cooldown},
                retry_backoff_seconds : {BackoffUnit},
                cloudinary_cloud_name : {"set"},
                cloudinary_api_key : {"set"},
                cloudinary_api_secret : {"set"}]
    /\ Fresh
    /\ app = NotStarted
    /\ budget = [t \in Tasks |-> IF t = "t1" THEN MaxCalls ELSE 0]

SpecLifespan == InitLifespan /\ [][NextLifespan]_vars

\* the operations with every body of Bodies and with streaming
NextParse ==
    \/ \E t \in Tasks, o \in Ops :
          \E stream \in StreamFlags(o), input \in InputsOf(o) :
              Call(t, o, stream, input)
    \/ \E t \in Tasks, s \in StatusCodes, len \in BodyLens :
          \E body \in BodiesOf(s) : ReceiveResponse(t, s, len, body)
    \/ \E t \in Tasks, e \in HttpxErrors : ReceiveException(t, e)
    \/ \E t \in Tasks : Wake(t)
    \/ Tick

\* one caller, the upload credentials set
InitParse ==
    /\ cfg \in [retries : ConcurrentRetries,
                circuit_fail_threshold : {MaxThreshold},
                circuit_cooldown_seconds : {Cooldown},
                retry_backoff_seconds : {BackoffUnit},
                cloudinary_cloud_name : {"set"},
                cloudinary_api_key : {"set"},
                cloudinary_api_secret : {"set"}]
    /\ Constructed
    /\ budget = [t \in Tasks |-> IF t = "t1" THEN MaxCalls ELSE 0]

SpecParse == InitParse /\ [][NextParse]_vars

\* ------------------------------------------- the breaker methods step by step
\* The same operations with every statement of a breaker method as a step of
\* its own, so that what the lock guarantees does not rest on where the event
\* loop switches tasks: a task takes the lock of its breaker, runs the body
\* of the method, and releases the lock when the "async with" block ends.

\* the operation starts and reaches "await cb.allow()"
CallLocked(t, o, stream, input) ==
    LET misconfigured == o = "cloudinary_upload_image" /\ credentials_missing
    IN  /\ app.phase = "serving"
        /\ call[t].pc \in {"idle", "done"}
        /\ budget[t] > 0
        /\ budget' = [budget EXCEPT ![t] = @ - 1]
        /\ LET c == Request(o, stream, input)
           IN  call' = [call EXCEPT ![t] =
                  IF misconfigured THEN Raise(c, ConfigError)
                  ELSE [c EXCEPT !.pc = "allow"]]
        /\ UNCHANGED <<cfg, app, now, cb, lock, ev, streak>>

\* variant of "async with self._lock" that does not wait for the lock
AcquireUnguarded(t) ==
    LET c == call[t]
        b == BreakerOf(c.op)
    IN  /\ c.pc \in {"allow", "report_success", "report_failure"}
        /\ lock' = [lock EXCEPT ![b] = t]
        /\ call' = [call EXCEPT ![t].pc =
                      CASE c.pc = "allow"          -> "allow_cs"
                        [] c.pc = "report_success" -> "report_success_cs"
                        [] OTHER                   -> "rf_read"]
        /\ UNCHANGED <<cfg, app, now, cb, ev, streak, budget>>

\* "async with self._lock" of allow, report_success and report_failure
Acquire(t) ==
    LET c == call[t]
        b == BreakerOf(c.op)
    IN  /\ c.pc \in {"allow", "report_success", "report_failure"}
        /\ lock[b] = None
        /\ lock' = [lock EXCEPT ![b] = t]
        /\ call' = [call EXCEPT ![t].pc =
                      CASE c.pc = "allow"          -> "allow_cs"
                        [] c.pc = "report_success" -> "report_success_cs"
                        [] OTHER                   -> "rf_read"]
        /\ UNCHANGED <<cfg, app, now, cb, ev, streak, budget>>

\* variant of allow() that returns without leaving the "async with" block
AllowLockedKeepsLock(t) ==
    LET c == call[t]
        b == BreakerOf(c.op)
        rejected == allow_raises(cb[b], now)
    IN  /\ c.pc = "allow_cs"
        /\ lock' = IF rejected THEN [lock EXCEPT ![b] = None] ELSE lock
        /\ cb' = IF rejected THEN cb ELSE [cb EXCEPT ![b] = allow(@, now)]
        /\ call' = [call EXCEPT ![t] = AllowThenSend(c)]
        /\ ev' = Event("allow", b, ~rejected)
        /\ UNCHANGED <<cfg, app, now, streak, budget>>

\* variant of allow() that waits for an open breaker to close instead of
\* raising: the caller comes back to "await cb.allow()"
AllowLockedWaits(t) ==
    LET c == call[t]
        b == BreakerOf(c.op)
        rejected == allow_raises(cb[b], now)
    IN  /\ c.pc = "allow_cs"
        /\ lock' = [lock EXCEPT ![b] = None]
        /\ cb' = IF rejected THEN cb ELSE [cb EXCEPT ![b] = allow(@, now)]
        /\ call' = [call EXCEPT ![t] = IF rejected THEN [c EXCEPT !.pc = "allow"]
                                                   ELSE Send(c)]
        /\ ev' = Event("allow", b, ~rejected)
        /\ UNCHANGED <<cfg, app, now, streak, budget>>

\* the body of allow() under the lock, and what the caller does next
AllowLocked(t) ==
    LET c == call[t]
        b == BreakerOf(c.op)
        rejected == allow_raises(cb[b], now)
    IN  /\ c.pc = "allow_cs"
        /\ lock' = [lock EXCEPT ![b] = None]
        /\ cb' = IF rejected THEN cb ELSE [cb EXCEPT ![b] = allow(@, now)]
        /\ call' = [call EXCEPT ![t] = AllowThenSend(c)]
        /\ ev' = Event("allow", b, ~rejected)
        /\ UNCHANGED <<cfg, app, now, streak, budget>>

\* where a call goes after a request: straight on, or to the breaker method
\* it awaits, with the rest of the call kept for when the method returns
ThroughBreaker(c, d) ==
    IF Reported(c, d) = None THEN d
    ELSE [c EXCEPT !.pc = Reported(c, d), !.cont = d]

\* the request completes with a response
ReceiveResponseLocked(t, status, len, body) ==
    LET c == [call[t] EXCEPT !.outcomes = Append(@, StatusKind(status))]
        d == Parse(IF IsExecutorOp(c.op) THEN ExecutorResponse(c, status, len)
                                         ELSE UploadResponse(c, status, len), body)
    IN  /\ call[t].pc = "awaiting"
        /\ call' = [call EXCEPT ![t] = ThroughBreaker(c, d)]
        /\ UNCHANGED <<cfg, app, now, cb, lock, ev, streak, budget>>

\* the request raises an httpx exception
ReceiveExceptionLocked(t, e) ==
    LET c == [call[t] EXCEPT !.outcomes = Append(@, ExceptionKind(e))]
        d == IF IsExecutorOp(c.op) THEN ExecutorException(c, e)
                                   ELSE UploadException(c, e)
    IN  /\ call[t].pc = "awaiting"
        /\ call' = [call EXCEPT ![t] = ThroughBreaker(c, d)]
        /\ UNCHANGED <<cfg, app, now, cb, lock, ev, streak, budget>>

\* report_failure: "self._fail_count += 1" reads the counter ...
FailureRead(t) ==
    LET c == call[t]
        b == BreakerOf(c.op)
    IN  /\ c.pc = "rf_read"
        /\ call' = [call EXCEPT ![t] = [c EXCEPT !.pc = "rf_write",
                                                 !.seen = cb[b].fail_count]]
        /\ UNCHANGED <<cfg, app, now, cb, lock, ev, streak, budget>>

\* ... and stores the value read plus one
FailureWrite(t) ==
    LET c == call[t]
        b == BreakerOf(c.op)
        read == [cb[b] EXCEPT !.fail_count = c.seen]
    IN  /\ c.pc = "rf_write"
        /\ cb' = [cb EXCEPT ![b].fail_count = report_failure(read, now).fail_count]
        /\ call' = [call EXCEPT ![t].pc = "rf_open"]
        /\ UNCHANGED <<cfg, app, now, lock, ev, streak, budget>>

\* report_failure: the threshold test of lines 101-102, the end of the
\* "async with" block, and what the caller does next
FailureOpen(t) ==
    LET c == call[t]
        b == BreakerOf(c.op)
        before == [cb[b] EXCEPT !.fail_count = @ - 1]
    IN  /\ c.pc = "rf_open"
        /\ cb' = [cb EXCEPT ![b].open_until = report_failure(before, now).open_until]
        /\ lock' = [lock EXCEPT ![b] = None]
        /\ call' = [call EXCEPT ![t] = c.cont]
        /\ ev' = Event("report_failure", b, TRUE)
        /\ streak' = [streak EXCEPT ![b] = @ + 1]
        /\ UNCHANGED <<cfg, app, now, budget>>

\* the body of report_success() under the lock, then "return resp"
SuccessLocked(t) ==
    LET c == call[t]
        b == BreakerOf(c.op)
    IN  /\ c.pc = "report_success_cs"
        /\ cb' = [cb EXCEPT ![b] = report_success(@)]
        /\ lock' = [lock EXCEPT ![b] = None]
        /\ call' = [call EXCEPT ![t] = c.cont]
        /\ ev' = Event("report_success", b, TRUE)
        /\ streak' = [streak EXCEPT ![b] = 0]
        /\ UNCHANGED <<cfg, app, now, budget>>

NextLocked ==
    \/ \E t \in Tasks, o \in Ops :
          \E input \in ProperInputs(o) : CallLocked(t, o, FALSE, input)
    \/ \E t \in Tasks : Acquire(t)
    \/ \E t \in Tasks : AllowLocked(t)
    \/ \E t \in Tasks, s \in StatusCodes, len \in BodyLens :
          \E body \in ProperBodies(call[t].op, s) :
              ReceiveResponseLocked(t, s, len, body)
    \/ \E t \in Tasks, e \in HttpxErrors : ReceiveExceptionLocked(t, e)
    \/ \E t \in Tasks : FailureRead(t)
    \/ \E t \in Tasks : FailureWrite(t)
    \/ \E t \in Tasks : FailureOpen(t)
    \/ \E t \in Tasks : SuccessLocked(t)
    \/ \E t \in Tasks : Wake(t)
    \/ Tick

\* two callers with one operation each, the breakers at the largest threshold
InitLocked ==
    /\ cfg \in [retries : ConcurrentRetries,
                circuit_fail_threshold : {MaxThreshold},
                circuit_cooldown_seconds : {Cooldown},
                retry_backoff_seconds : {BackoffUnit},
                cloudinary_cloud_name : {"set"},
                cloudinary_api_key : {"set"},
                cloudinary_api_secret : {"set"}]
    /\ Constructed
    /\ budget = [t \in Tasks |-> 1]

SpecLocked == InitLocked /\ [][NextLocked]_vars

\* ------------------------------------------------ the calls under fair scheduling
\* one status of each kind the executor tells apart (expected, transient,
\* other) and one exception of each kind (timeout, other)
LiveStatusCodes == {200, 400, 503}
LiveHttpxErrors == {"ReadTimeout", "ConnectError"}
LiveBodyLens    == {100}

\* the attempt of task t completes, with a response or with an exception:
\* every request carries the timeout of the configuration, so httpx ends it
Completes(t) ==
    \/ \E s \in LiveStatusCodes, len \in LiveBodyLens :
          \E body \in ProperBodies(call[t].op, s) :
              ReceiveResponseLocked(t, s, len, body)
    \/ \E e \in LiveHttpxErrors : ReceiveExceptionLocked(t, e)

\* the executor operation of each caller: both go through the breaker of the
\* inference server
LiveOp(t) == IF t = "t1" THEN "ollama_generate" ELSE "ollama_embeddings"

\* a caller starts its operation
Starts(t) ==
    \E input \in ProperInputs(LiveOp(t)) : CallLocked(t, LiveOp(t), FALSE, input)

\* time passes, as far as one cooldown
TickLive ==
    /\ now < LiveMaxTime
    /\ now' = now + 1
    /\ UNCHANGED <<cfg, app, cb, lock, call, ev, streak, budget>>

NextLive ==
    \/ \E t \in Tasks : Starts(t)
    \/ \E t \in Tasks : Acquire(t)
    \/ \E t \in Tasks : AllowLocked(t)
    \/ \E t \in Tasks : Completes(t)
    \/ \E t \in Tasks : FailureRead(t)
    \/ \E t \in Tasks : FailureWrite(t)
    \/ \E t \in Tasks : FailureOpen(t)
    \/ \E t \in Tasks : SuccessLocked(t)
    \/ \E t \in Tasks : Wake(t)
    \/ TickLive

\* The event loop runs every task that is ready: a breaker method that holds
\* the lock runs on to the end of its "async with" block, a sleep ends, a
\* request completes or times out.  asyncio.Lock wakes its waiters in the
\* order they came, so a task that waits for the lock gets it (strong
\* fairness: the lock is free and taken over and over while the task waits).
\* Nothing obliges a caller to start a call, nor the time to pass.
Fairness ==
    \A t \in Tasks :
        /\ SF_vars(Acquire(t))
        /\ WF_vars(AllowLocked(t))
        /\ WF_vars(Completes(t))
        /\ WF_vars(FailureRead(t))
        /\ WF_vars(FailureWrite(t))
        /\ WF_vars(FailureOpen(t))
        /\ WF_vars(SuccessLocked(t))
        /\ WF_vars(Wake(t))

SpecLive == InitLocked /\ [][NextLive]_vars /\ Fairness

\* ------------------------------------------------------------------ claims
Open(b) == cb[b].open_until > now

Last(seq) == seq[Len(seq)]

Count(seq, kinds) == Cardinality({i \in 1..Len(seq) : seq[i] \in kinds})

Done(t) == call[t].pc = "done"

Executor(t) == IsExecutorOp(call[t].op)

\* the call of task t ran out of attempts
Exhausted(t) ==
    /\ Done(t) /\ Executor(t)
    /\ Len(call[t].outcomes) = cfg.retries + 1
    /\ Last(call[t].outcomes) \in {"transient", "ReadTimeout", "HTTPError"}

\* C1: after threshold or more consecutive report_failure() calls with no
\* report_success() in between, allow() fails exactly when it is made before
\* open-until (now < open-until) and succeeds when now >= open-until.
C1_AllowFollowsOpenUntil ==
    (ev.op = "allow" /\ streak[ev.b] >= cfg.circuit_fail_threshold)
        => /\ ev.at < ev.pre.open_until => ~ev.admitted
           /\ ev.at >= ev.pre.open_until => ev.admitted

\* an allow() admitted after the cooldown of an opened breaker has elapsed
C1_Witness ==
    /\ ev.op = "allow" /\ streak[ev.b] >= cfg.circuit_fail_threshold
    /\ ev.pre.open_until # 0 /\ ev.at >= ev.pre.open_until /\ ev.admitted

\* C2 as stated: while a breaker is open no step clears open-until or moves
\* it earlier; only the passing of time ends the Open state.
C2_OnlyTimeLeavesOpen ==
    [][\A b \in Breakers : Open(b) => cb'[b].open_until >= cb[b].open_until]_vars

\* C2 amended: allow() never admits a call before open-until and never touches
\* an open breaker; the one step that takes a breaker out of Open before its
\* cooldown has elapsed is the report_success() of a call admitted earlier.
C2_OnlySuccessOrTimeLeavesOpen ==
    /\ [](ev.op = "allow" /\ ev.admitted => ev.at >= ev.pre.open_until)
    /\ [][\A b \in Breakers :
            (Open(b) /\ cb'[b].open_until < cb[b].open_until)
                => /\ ev'.op = "report_success" /\ ev'.b = b /\ ev'.pre = cb[b]
                   /\ cb'[b] = ClosedBreaker]_vars

\* a report_success() of an in-flight call has closed a breaker that the
\* failures of another call had opened
C2_Witness ==
    /\ ev.op = "report_success" /\ ev.pre.open_until > ev.at
    /\ cb[ev.b] = ClosedBreaker
    /\ \E t \in Tasks : call[t].nfail > 0 /\ BreakerOf(call[t].op) = ev.b
    /\ \E t \in Tasks : call[t].nsucc > 0 /\ call[t].nfail = 0
                          /\ BreakerOf(call[t].op) = ev.b

RejectedByBreaker(t) == Done(t) /\ call[t].result = CircuitOpen

\* C3: a call rejected by allow() makes no network attempt, does not sleep,
\* reports nothing, and the rejection leaves the breaker as it was.
C3_RejectionDoesNothing ==
    /\ \A t \in Tasks : RejectedByBreaker(t) =>
          /\ call[t].attempts = 0 /\ call[t].outcomes = << >>
          /\ call[t].sleeps = << >>
          /\ call[t].nfail = 0 /\ call[t].nsucc = 0
    /\ (ev.op = "allow" /\ ~ev.admitted) => cb[ev.b] = ev.pre

C3_Witness ==
    /\ ev.op = "allow" /\ ~ev.admitted /\ ev.pre.fail_count > 0
    /\ \E t \in Tasks : RejectedByBreaker(t) /\ BreakerOf(call[t].op) = ev.b

\* C4: report_success() leaves the counter at 0 and open-until cleared,
\* whatever they were.
C4_SuccessResets ==
    ev.op = "report_success" => cb[ev.b] = [fail_count |-> 0, open_until |-> 0]

\* a report_success() on an open breaker whose counter had reached the threshold
C4_Witness ==
    /\ ev.op = "report_success"
    /\ ev.pre.fail_count >= cfg.circuit_fail_threshold
    /\ ev.pre.open_until > ev.at

AllTransient(t) ==
    /\ call[t].outcomes # << >>
    /\ \A i \in 1..Len(call[t].outcomes) : call[t].outcomes[i] = "transient"

\* C5: a call whose every attempt returned a transient status made exactly
\* retries + 1 attempts and failed with UpstreamUnavailable; no call makes
\* more than retries + 1 attempts.
C5_TransientAttempts ==
    \A t \in Tasks : Executor(t) =>
        /\ call[t].attempts <= cfg.retries + 1
        /\ (Done(t) /\ AllTransient(t)) =>
              /\ call[t].attempts = cfg.retries + 1
              /\ Len(call[t].outcomes) = cfg.retries + 1
              /\ call[t].result = Unavailable

C5_Witness ==
    \E t \in Tasks : /\ Executor(t) /\ Done(t) /\ AllTransient(t)
                     /\ cfg.retries = 2 /\ call[t].attempts = 3

\* the sleeps between n attempts: backoff x 1, ..., backoff x (n - 1)
SleepsBetween(n) == [i \in 1..(n - 1) |-> cfg.retry_backoff_seconds * i]

\* C6: the sleeps of a call whose attempts all failed are exactly the ones
\* between the attempts, backoff x 1 .. backoff x retries, with no sleep after
\* the final attempt.
C6_SleepsOnlyBetweenAttempts ==
    \A t \in Tasks : Exhausted(t) => call[t].sleeps = SleepsBetween(cfg.retries + 1)

\* C7: an attempt answered with a status that is neither expected nor
\* transient ends the call there: one failure reported for it, no sleep
\* after it, no further attempt, BadUpstreamResponse with a snippet of at most
\* 512 characters.
C7_BadStatusFailsFast ==
    \A t \in Tasks :
        (Executor(t) /\ call[t].outcomes # << >> /\ Last(call[t].outcomes) = "other") =>
            LET n == Len(call[t].outcomes)
            IN  /\ Done(t)
                /\ call[t].result.kind = "BadUpstreamResponse"
                /\ call[t].result.snippet <= 512
                /\ call[t].attempts = n
                /\ Len(call[t].sleeps) = n - 1
                /\ call[t].nfail = 1 + Count(call[t].outcomes, {"ReadTimeout", "HTTPError"})
                /\ call[t].nsucc = 0

\* a 400-like answer to the first attempt, with a body longer than the limit
C7_Witness ==
    \E t \in Tasks : /\ Executor(t) /\ call[t].outcomes = <<"other">>
                     /\ call[t].attempts = 1 /\ call[t].nfail = 1
                     /\ call[t].result = [kind |-> "BadUpstreamResponse", snippet |-> 512]

\* C8: the executor returns a response only with the expected status, as soon
\* as an attempt yields it, after reporting success exactly once.
C8_ReturnsOnlyExpected ==
    \A t \in Tasks : Executor(t) =>
        /\ (call[t].outcomes # << >> /\ Last(call[t].outcomes) = "expected") =>
              /\ Done(t) /\ call[t].result.kind = "Response"
        /\ call[t].result.kind = "Response" =>
              /\ call[t].result.status = 200
              /\ Last(call[t].outcomes) = "expected"
              /\ call[t].nsucc = 1
              /\ call[t].attempts = Len(call[t].outcomes)
              /\ Len(call[t].sleeps) = Len(call[t].outcomes) - 1
        /\ call[t].result.kind # "Response" => call[t].nsucc = 0

\* a response returned by a retry
C8_Witness ==
    \E t \in Tasks : /\ Executor(t) /\ Done(t) /\ call[t].result.kind = "Response"
                     /\ call[t].attempts = 2

\* C9: a call that ran out of attempts raises what its final attempt
\* recorded: UpstreamTimeout exactly when that attempt was a read timeout,
\* UpstreamUnavailable otherwise.
C9_LastAttemptDecides ==
    \A t \in Tasks : Exhausted(t) =>
        /\ call[t].result = Timeout <=> Last(call[t].outcomes) = "ReadTimeout"
        /\ Last(call[t].outcomes) # "ReadTimeout" => call[t].result = Unavailable

\* an exhausted call whose first attempt timed out and whose last did not
C9_Witness ==
    \E t \in Tasks : /\ Exhausted(t) /\ call[t].outcomes[1] = "ReadTimeout"
                     /\ Last(call[t].outcomes) = "transient"
                     /\ call[t].result = Unavailable

AllExceptions(t) ==
    /\ call[t].outcomes # << >>
    /\ \A i \in 1..Len(call[t].outcomes) :
          call[t].outcomes[i] \in {"ReadTimeout", "HTTPError"}

\* C10: every attempt that raised a read timeout or another HTTP error has
\* been reported to the breaker by the time the call sleeps or ends, and is
\* followed by its backoff sleep; a call whose attempts all raised reports
\* exactly retries + 1 failures.
C10_ExceptionsReportedPerAttempt ==
    \A t \in Tasks : Executor(t) =>
        /\ call[t].nfail = Count(call[t].outcomes, {"ReadTimeout", "HTTPError", "other"})
        /\ \A i \in 1..Len(call[t].outcomes) :
              call[t].outcomes[i] \in {"ReadTimeout", "HTTPError"} =>
                  /\ Len(call[t].sleeps) >= i
                  /\ call[t].sleeps[i] = cfg.retry_backoff_seconds * i
        /\ (Done(t) /\ AllExceptions(t)) =>
              /\ call[t].attempts = cfg.retries + 1
              /\ call[t].nfail = cfg.retries + 1

C10_Witness ==
    \E t \in Tasks : /\ Executor(t) /\ Done(t) /\ AllExceptions(t)
                     /\ cfg.retries = 2 /\ call[t].nfail = 3
                     /\ "HTTPError" \in {call[t].outcomes[i] : i \in 1..3}

\* task t receives a transient status for an attempt that is not its last
TransientRetried(t) ==
    /\ Executor(t) /\ call[t].pc = "awaiting"
    /\ call[t].attempt + 1 < cfg.retries + 1
    /\ call'[t].outcomes = Append(call[t].outcomes, "transient")

\* C11: an attempt answered with a transient status and followed by another
\* attempt runs no breaker method: both breakers, the record of the last
\* breaker method and the call's report counters stay as they were.
C11_TransientLeavesBreaker ==
    [][\A t \in Tasks : TransientRetried(t) =>
          /\ cb' = cb /\ ev' = ev /\ streak' = streak
          /\ call'[t].nfail = call[t].nfail
          /\ call'[t].nsucc = call[t].nsucc]_vars

\* a second attempt under way after a transient answer, nothing reported
C11_Witness ==
    \E t \in Tasks : /\ Executor(t) /\ call[t].pc = "awaiting"
                     /\ call[t].outcomes = <<"transient">>
                     /\ call[t].attempts = 2 /\ call[t].nfail = 0
                     /\ cb["ollama"] = ClosedBreaker /\ streak["ollama"] = 0

\* C12: a call whose retries + 1 attempts all returned transient statuses has
\* reported its terminal failure to the breaker by the time it raises.
C12_ExhaustionReported ==
    \A t \in Tasks : (Exhausted(t) /\ AllTransient(t)) => call[t].nfail = 1

\* the task is inside the "async with self._lock" block of a breaker method
InBreakerMethod(t) ==
    call[t].pc \in {"allow_cs", "report_success_cs", "rf_read", "rf_write", "rf_open"}

\* the counter has reached the threshold and open-until is not set yet
HalfReported(b) ==
    cb[b].fail_count >= cfg.circuit_fail_threshold /\ cb[b].open_until = 0

C13_Consistent ==
    \A t \in Tasks :
        /\ InBreakerMethod(t) => lock[BreakerOf(call[t].op)] = t
        /\ call[t].pc = "allow_cs" => ~HalfReported(BreakerOf(call[t].op))

C13_NoLostUpdate ==
    \A t \in Tasks :
        (call[t].pc = "rf_write" /\ call'[t].pc = "rf_open") =>
            LET b == BreakerOf(call[t].op)
            IN  cb'[b].fail_count = cb[b].fail_count + 1

\* C13: the three methods of one breaker exclude each other whatever the
\* interleaving of the callers: a task inside one of them holds the lock of
\* its breaker, every "self._fail_count += 1" raises the counter as it is at
\* that moment by exactly one (no update is lost), and no task inside allow()
\* finds the counter at the threshold with open-until still unset.
C13_BreakerMethodsAtomic ==
    []C13_Consistent /\ [][C13_NoLostUpdate]_vars

\* two calls report a failure to the same breaker at the same time: one is in
\* the middle of report_failure(), the counter already at the threshold of 2
\* and open-until not yet set, while the other waits for the lock
C13_Witness ==
    \E t, u \in Tasks :
        /\ t # u /\ BreakerOf(call[t].op) = BreakerOf(call[u].op)
        /\ call[t].pc = "rf_open" /\ call[u].pc = "report_failure"
        /\ cb[BreakerOf(call[t].op)].fail_count = 2
        /\ HalfReported(BreakerOf(call[t].op))

\* C14: a task that waits for a response, sleeps between attempts, or is
\* outside any breaker method holds no breaker lock; a lock that is taken is
\* held by a task inside allow(), report_success() or report_failure().
C14_LockOnlyInsideMethods ==
    \A b \in Breakers :
        /\ \A t \in Tasks : ~InBreakerMethod(t) => lock[b] # t
        /\ lock[b] # None => /\ InBreakerMethod(lock[b])
                             /\ BreakerOf(call[lock[b]].op) = b

\* one call sleeps between two attempts while another call is inside allow()
\* of the same breaker
C14_Witness ==
    \E t, u \in Tasks :
        /\ t # u /\ BreakerOf(call[t].op) = BreakerOf(call[u].op)
        /\ call[t].pc = "sleep" /\ call[t].attempts = 1
        /\ call[u].pc = "allow_cs" /\ lock[BreakerOf(call[u].op)] = u

\* the last breaker method run was an allow() made at or after open-until of
\* a breaker that had been opened
AllowAfterCooldown ==
    ev.op = "allow" /\ ev.pre.open_until # 0 /\ ev.at >= ev.pre.open_until

C15_ResetToClosed ==
    /\ AllowAfterCooldown => ev.admitted /\ cb[ev.b] = ClosedBreaker
    /\ (ev.op = "allow" /\ ev.pre.open_until = 0) => ev.admitted /\ cb[ev.b] = ev.pre
    /\ \A b \in Breakers :
          cb[b].open_until # 0 => cb[b].fail_count >= cfg.circuit_fail_threshold

C15_CounterRaisedByFailures ==
    \A b \in Breakers :
        cb'[b].fail_count > cb[b].fail_count =>
            /\ cb'[b].fail_count = cb[b].fail_count + 1
            /\ ev'.op = "report_failure" /\ ev'.b = b

\* C15: the first allow() made once the cooldown has elapsed returns and
\* leaves the breaker exactly as constructed (counter 0, open-until 0); an
\* allow() on a breaker whose open-until is 0 always returns and changes
\* nothing, so every later caller is admitted; and since the counter restarts
\* at 0, rises by one per report_failure() and by nothing else, and open-until
\* is set only at a counter >= threshold, allow() rejects again only after
\* threshold further failures.
C15_ClosedAfterCooldown ==
    []C15_ResetToClosed /\ [][C15_CounterRaisedByFailures]_vars

\* a breaker with threshold 2 was opened, reset by an allow() after its
\* cooldown, and is open again with exactly 2 failures counted since
C15_Witness ==
    \E b \in Breakers :
        /\ cfg.circuit_fail_threshold = 2
        /\ streak[b] >= 4 /\ cb[b].fail_count = 2 /\ Open(b)
        /\ ev.op = "report_failure" /\ ev.b = b

Upload(t) == call[t].op = "cloudinary_upload_image"

\* one of the three upload credentials is the empty string
AnyCredentialEmpty ==
    \/ cfg.cloudinary_cloud_name = ""
    \/ cfg.cloudinary_api_key = ""
    \/ cfg.cloudinary_api_secret = ""

C16_FailsUnattempted ==
    AnyCredentialEmpty =>
        /\ \A t \in Tasks : Upload(t) =>
              /\ Done(t) /\ call[t].result = ConfigError
              /\ call[t].attempts = 0 /\ call[t].outcomes = <<>>
              /\ call[t].nfail = 0 /\ call[t].nsucc = 0 /\ call[t].sleeps = <<>>
        /\ cb["cloudinary"] = ClosedBreaker
        /\ ev.b # "cloudinary"

C16_BreakerUntouched ==
    \A t \in Tasks :
        (AnyCredentialEmpty /\ call'[t] # call[t] /\ call'[t].op = "cloudinary_upload_image")
            => cb' = cb /\ ev' = ev /\ streak' = streak /\ lock' = lock

\* C16: with any of cloud name, API key and API secret empty, an upload ends
\* at once with the Gateway's configuration error: no request is sent, nothing
\* is reported, and the step changes neither breaker and runs no breaker
\* method, so the upload breaker is never consulted.
C16_MissingCredentials ==
    []C16_FailsUnattempted /\ [][C16_BreakerUntouched]_vars

\* an upload refused for its empty API secret alone, made while the other
\* breaker holds counted failures
C16_Witness ==
    \E t \in Tasks :
        /\ Upload(t) /\ Done(t) /\ call[t].result = ConfigError
        /\ cfg.cloudinary_cloud_name # "" /\ cfg.cloudinary_api_key # ""
        /\ cfg.cloudinary_api_secret = ""
        /\ cb["ollama"].fail_count > 0

\* what an upload that made its attempt reported and raised, by outcome
UploadOutcome(t) ==
    LET c == call[t]
        o == c.outcomes[1]
    IN  /\ c.nfail + c.nsucc = 1
        /\ o = "expected" => c.nsucc = 1
        /\ o = "transient" => c.nfail = 1 /\ c.result = Unavailable
        /\ o = "other" => /\ c.nfail = 1 /\ c.result.kind = "BadUpstreamResponse"
                          /\ c.result.snippet <= 256
        /\ o = "ReadTimeout" => c.nfail = 1 /\ c.result = Timeout
        /\ o = "HTTPError" => c.nfail = 1 /\ c.result = Unavailable

\* C17: an upload admitted by its breaker sends exactly one request and never
\* sleeps; when the request is over it has reported exactly one outcome:
\* report_success() for status 200, and one report_failure() with
\* UpstreamUnavailable for a transient status, BadUpstreamResponse (snippet of
\* at most 256 characters) for any other status, UpstreamTimeout for a read
\* timeout and UpstreamUnavailable for any other HTTP error.
C17_UploadSingleAttempt ==
    \A t \in Tasks : (Upload(t) /\ call[t].attempts > 0) =>
        /\ call[t].attempts = 1 /\ call[t].sleeps = <<>>
        /\ call[t].pc \in {"awaiting", "done"}
        /\ call[t].pc = "awaiting" =>
              call[t].nfail = 0 /\ call[t].nsucc = 0 /\ call[t].outcomes = <<>>
        /\ Done(t) => Len(call[t].outcomes) = 1 /\ UploadOutcome(t)

\* an upload answered with a status that is neither 200 nor transient and a
\* body of 600 characters: one failure counted by the upload breaker, a
\* snippet of 256 characters
C17_Witness ==
    \E t \in Tasks :
        /\ Upload(t) /\ Done(t) /\ call[t].outcomes = <<"other">>
        /\ call[t].result.kind = "BadUpstreamResponse" /\ call[t].result.snippet = 256
        /\ call[t].nfail = 1 /\ cb["cloudinary"].fail_count = 1

\* the upstream an operation talks to, as the claim names them
OllamaOps == {"ollama_generate", "ollama_embeddings"}

UploadOps == {"cloudinary_upload_image"}

\* failures reported by the calls to the operations in ops
FailuresOf(ops) ==
    LET n(t) == IF call[t].op \in ops THEN call[t].nfail ELSE 0
    IN  n("t1") + n("t2")

C18_CountsOwnFailures ==
    /\ cb["ollama"].fail_count <= FailuresOf(OllamaOps)
    /\ cb["cloudinary"].fail_count <= FailuresOf(UploadOps)
    /\ cb["ollama"].open_until # 0 => FailuresOf(OllamaOps) >= cfg.circuit_fail_threshold
    /\ cb["cloudinary"].open_until # 0 => FailuresOf(UploadOps) >= cfg.circuit_fail_threshold

C18_StepsOwnBreaker ==
    \A t \in Tasks : call'[t] # call[t] =>
        /\ call'[t].op \in OllamaOps =>
              /\ cb'["cloudinary"] = cb["cloudinary"]
              /\ ev' # ev => ev'.b = "ollama" /\ ev'.pre = cb["ollama"]
        /\ call'[t].op \in UploadOps =>
              /\ cb'["ollama"] = cb["ollama"]
              /\ ev' # ev => ev'.b = "cloudinary" /\ ev'.pre = cb["cloudinary"]

\* C18: a step of a generation or embedding call reads and updates the Ollama
\* breaker only, a step of an upload call the Cloudinary breaker only; each
\* breaker counts no more failures than the calls of its own upstream
\* reported, and is opened only by threshold failures of those calls, the
\* failures of generation and embedding calls counted together.
C18_BreakerIsolation ==
    []C18_CountsOwnFailures /\ [][C18_StepsOwnBreaker]_vars

\* two failed attempts of an embedding call open the Ollama breaker of
\* threshold 2, a generation call is rejected by it, and the Cloudinary
\* breaker is as constructed
C18_Witness ==
    \E t, u \in Tasks :
        /\ call[t].op = "ollama_embeddings" /\ call[t].nfail = 2
        /\ cfg.circuit_fail_threshold = 2
        /\ call[u].op = "ollama_generate" /\ Done(u)
        /\ call[u].result = CircuitOpen /\ call[u].attempts = 0
        /\ cb["cloudinary"] = ClosedBreaker

\* the texts joined into a GenerateResponse hold no ""; every body of the
\* model that carries the text field carries a non-empty text, so a "" is
\* the default of x.get("response", "")
NoDefaultedText(r) == \A i \in 1..Len(r.response) : r.response[i] # ""

\* C19 as stated: an ollama_generate call answered with the expected status
\* returns a GenerateResponse only from a body that parses and carries the
\* text field in its object, or in every line when streaming; any other body
\* raises BadUpstreamResponse, and no text is defaulted to the empty string.
C19_GenerateNeverDefaults ==
    \A t \in Tasks :
        (Done(t) /\ call[t].op = "ollama_generate" /\ call[t].result.kind = "Response")
            => \/ call[t].reply = ParseFailure
               \/ /\ call[t].reply.kind = "GenerateResponse"
                  /\ NoDefaultedText(call[t].reply)

\* what an operation may give its caller: its response, or a GatewayError
Typed(r) ==
    r.kind \in GatewayErrors \cup
        {"GenerateResponse", "EmbeddingsResponse", "CloudinaryUploadResponse"}

\* the response an operation returns
ResponseOf(o) ==
    CASE o = "ollama_generate"   -> "GenerateResponse"
      [] o = "ollama_embeddings" -> "EmbeddingsResponse"
      [] OTHER                   -> "CloudinaryUploadResponse"

\* C20 as stated: whatever the upstream does, an operation that is over has
\* returned its response or raised GatewayError or one of its subclasses; an
\* expected status with a body that is not JSON or lacks the expected fields
\* gives BadUpstreamResponse and nothing else, the upload with a missing
\* public_id or secure_url included.
C20_FailuresAreGatewayErrors ==
    \A t \in Tasks : Done(t) =>
        /\ Typed(call[t].reply)
        /\ call[t].result.kind = "Response" =>
              \/ call[t].reply = ParseFailure
              \/ call[t].reply.kind = ResponseOf(call[t].op)

Embeddings(t) == call[t].op = "ollama_embeddings"

\* the ollama_embeddings call of task t returned an EmbeddingsResponse
Embedded(t) ==
    Embeddings(t) /\ Done(t) /\ call[t].reply.kind = "EmbeddingsResponse"

\* C21 as stated: an ollama_embeddings call that succeeds for n input strings
\* returns exactly n vectors, all of the same length; an answer with fewer
\* or more vectors than inputs is not returned as a success.
C21_OneVectorPerInput ==
    \A t \in Tasks : Embedded(t) =>
        LET vs == call[t].reply.embeddings
        IN  /\ Len(vs) = Len(call[t].input)
            /\ \A i, j \in 1..Len(vs) : Len(vs[i]) = Len(vs[j])

\* C22 as stated: ollama_embeddings called with an empty input list returns
\* an empty result without an upstream call: no request is sent, no breaker
\* method runs.
C22_EmptyInputNoCall ==
    \A t \in Tasks : (Embeddings(t) /\ call[t].input = << >>) =>
        /\ Done(t) /\ call[t].attempts = 0
        /\ call[t].reply = [kind |-> "EmbeddingsResponse", embeddings |-> << >>]
        /\ call[t].nfail = 0 /\ call[t].nsucc = 0

\* C23: the request body of ollama_embeddings: for one input string both
\* "input" and "prompt" are that string; for two or more "input" is the list
\* as given and "prompt" the strings joined with a space and a newline
\* between them, so ["a","b"] gives the prompt "a \nb".
C23_RequestShaping ==
    \A t \in Tasks : Embeddings(t) =>
        LET in == call[t].input
            out == call[t].payload
        IN  /\ Len(in) = 1 => out.input = in[1] /\ out.prompt = in[1]
            /\ Len(in) = 2 => /\ out.input = in
                              /\ out.prompt = in[1] \o <<" ", "\n">> \o in[2]
            /\ Len(in) = 3 => /\ out.input = in
                              /\ out.prompt = in[1] \o <<" ", "\n">> \o in[2]
                                                    \o <<" ", "\n">> \o in[3]
            /\ in = <<<<"a">>, <<"b">>>> => out.prompt = <<"a", " ", "\n", "b">>

\* the request for ["a","b"] has been sent with the prompt "a \nb"
C23_Witness ==
    \E t \in Tasks :
        /\ Embeddings(t) /\ call[t].pc = "awaiting"
        /\ call[t].input = <<<<"a">>, <<"b">>>>
        /\ call[t].payload = [input |-> <<<<"a">>, <<"b">>>>,
                              prompt |-> <<"a", " ", "\n", "b">>]

\* C24: of a body that is one JSON object, ollama_embeddings returns the
\* value of "embeddings" as it is when that is a non-empty list, whatever
\* "embedding" holds; otherwise the value of "embedding" wrapped in a
\* one-element list when that is a non-empty list; otherwise it raises
\* BadUpstreamResponse.
C24_ResponseParsing ==
    \A t \in Tasks :
        (Embeddings(t) /\ Done(t) /\ call[t].result.kind = "Response"
                       /\ Len(call[t].body) = 1 /\ call[t].body[1].json) =>
            LET es == call[t].body[1].embeddings
                e  == call[t].body[1].embedding
                some(v) == v.type = "list" /\ Len(v.items) > 0
            IN  /\ some(es) => call[t].reply =
                      [kind |-> "EmbeddingsResponse", embeddings |-> es.items]
                /\ (~some(es) /\ some(e)) => call[t].reply =
                      [kind |-> "EmbeddingsResponse", embeddings |-> <<e.items>>]
                /\ (~some(es) /\ ~some(e)) => call[t].reply = ParseFailure

\* a body with two vectors under "embeddings" and another under "embedding":
\* the two are returned
C24_Witness ==
    \E t \in Tasks :
        /\ Embedded(t)
        /\ call[t].body = <<EmbeddingsObject(List(<<Vec(2), Vec(2)>>), List(Vec(3)))>>
        /\ call[t].reply.embeddings = <<Vec(2), Vec(2)>>

C25_SharedClient ==
    /\ app.phase = "starting" => app.opened = 0 /\ app.closed = 0
    /\ app.phase = "serving" => app.opened = 1 /\ app.closed = 0
    /\ app.phase = "stopped" => app.opened = 1 /\ app.closed = 1

C25_UploadClient ==
    \A t \in Tasks :
        /\ (Upload(t) /\ call[t].pc = "awaiting") =>
              call[t].client_opened = 1 /\ call[t].client_closed = 0
        /\ Done(t) => /\ call[t].client_closed = call[t].client_opened
                      /\ Upload(t) => call[t].client_opened = call[t].attempts
        /\ ~Upload(t) => call[t].client_opened = 0

\* C25: the shared client is created once, when the lifespan builds the
\* Gateway, is open while the application serves, and has been closed by
\* exactly one aclose() once the lifespan is over, whether the yield returned
\* or raised; the client an upload opens for its request is open only while
\* the request is awaited and is closed when the call is over, whatever the
\* outcome of the request.
C25_ClientsClosed == C25_SharedClient /\ C25_UploadClient

\* the lifespan left by an exception after an upload that timed out: the
\* shared client closed once, the upload's client closed
C25_Witness ==
    /\ app.phase = "stopped" /\ app.error /\ app.closed = 1
    /\ \E t \in Tasks : /\ Upload(t) /\ Done(t) /\ call[t].result = Timeout
                        /\ call[t].client_opened = 1 /\ call[t].client_closed = 1

\* task t starts a network attempt in this step
StartsAttempt(t) == call[t].pc # "awaiting" /\ call'[t].pc = "awaiting"

\* C26 as stated: no step starts a network attempt of a call while the
\* breaker of its upstream is open, the retry attempts of a call admitted
\* before the breaker opened included.
C26_NoAttemptWhileOpen ==
    [][\A t \in Tasks : StartsAttempt(t) => ~Open(BreakerOf(call'[t].op))]_vars

\* C26 amended: no call is admitted, and so no first attempt is started,
\* while the breaker of its upstream is open; the breaker is consulted once
\* per call, and the attempts started while it is open are the second and
\* later attempts of executor calls admitted before it opened.
C26_NoAdmissionWhileOpen ==
    [][\A t \in Tasks :
          (StartsAttempt(t) /\ Open(BreakerOf(call'[t].op))) =>
              /\ call[t].pc = "sleep" /\ IsExecutorOp(call[t].op)
              /\ call[t].attempts >= 1
              /\ call'[t].attempts = call[t].attempts + 1
              /\ call'[t].attempts <= cfg.retries + 1
              /\ cb' = cb /\ ev' = ev]_vars

\* a second attempt in flight while the breaker its first failure opened is
\* open
C26_Witness ==
    \E t \in Tasks :
        /\ Executor(t) /\ call[t].pc = "awaiting" /\ call[t].attempts = 2
        /\ call[t].nfail = 1 /\ cfg.circuit_fail_threshold = 1
        /\ Open("ollama")

\* a report_failure() that arrived when the cooldown of an opened breaker had
\* elapsed and no allow() or report_success() had reset the breaker since
LateFailure ==
    /\ ev.op = "report_failure"
    /\ ev.pre.open_until # 0
    /\ ev.at >= ev.pre.open_until

\* C27 as stated: once a cooldown has elapsed, a single report_failure() that
\* arrives before any allow() check does not put a breaker whose threshold is
\* above one back into the rejecting state.
C27_LateFailureKeepsClosed ==
    (LateFailure /\ cfg.circuit_fail_threshold > 1) =>
        ~(cb[ev.b].open_until > ev.at)

\* C27 amended: a breaker starts or resumes rejecting only by a
\* report_failure() that brings its counter to the threshold or above; the
\* counter grows by one per report_failure() and is put back to zero only by
\* report_success() or by the first allow() after the cooldown, so a
\* report_failure() that arrives after the cooldown and before that allow()
\* finds the counter still at the threshold and re-opens the breaker.
C27_RejectsAfterThreshold ==
    [][\A b \in Breakers :
          /\ (cb'[b].open_until > now' /\ ~(cb[b].open_until > now)) =>
                /\ ev'.op = "report_failure" /\ ev'.b = b
                /\ cb'[b].fail_count = cb[b].fail_count + 1
                /\ cb'[b].fail_count >= cfg.circuit_fail_threshold
          /\ cb'[b].fail_count > cb[b].fail_count =>
                /\ ev'.op = "report_failure" /\ ev'.b = b
                /\ cb'[b].fail_count = cb[b].fail_count + 1
          /\ cb'[b].fail_count < cb[b].fail_count =>
                /\ cb'[b].fail_count = 0
                /\ ev'.op \in {"report_success", "allow"} /\ ev'.b = b
                /\ ev'.op = "allow" =>
                       (cb[b].open_until # 0 /\ now >= cb[b].open_until)
          /\ ( /\ ev' # ev /\ ev'.op = "report_failure" /\ ev'.b = b
               /\ cb[b].open_until # 0 /\ now >= cb[b].open_until ) =>
                /\ cb[b].fail_count >= cfg.circuit_fail_threshold
                /\ cb'[b].open_until = now + cfg.circuit_cooldown_seconds]_vars

C27_Witness ==
    /\ LateFailure
    /\ cfg.circuit_fail_threshold > 1
    /\ ev.pre.fail_count = cfg.circuit_fail_threshold
    /\ cb[ev.b].fail_count = cfg.circuit_fail_threshold + 1
    /\ cb[ev.b].open_until > now

\* C28: with a threshold of at least one, in every reachable state each
\* breaker's failure counter is >= 0 and its open-until is set (non-zero)
\* exactly when the counter is at or above the threshold.
C28_BreakerInvariant ==
    cfg.circuit_fail_threshold >= 1 =>
        \A b \in Breakers :
            /\ cb[b].fail_count >= 0
            /\ cb[b].open_until # 0 <=>
                   cb[b].fail_count >= cfg.circuit_fail_threshold

\* the counter is not capped: it has gone past the threshold, by failures of
\* calls admitted before the breaker opened
C28_Witness ==
    \E b \in Breakers :
        /\ cb[b].fail_count > cfg.circuit_fail_threshold
        /\ cb[b].open_until # 0
        /\ ev.op = "report_failure" /\ ev.b = b

\* the step is a report_failure() on breaker b
FailureReported(b) == cb'[b].fail_count = cb[b].fail_count + 1

\* every report_failure() at or above the threshold sets open-until to the
\* time of the report + cooldown, and open-until moves earlier only by being
\* cleared
Rearmed(b) ==
    /\ (FailureReported(b) /\ cb'[b].fail_count >= cfg.circuit_fail_threshold) =>
           cb'[b].open_until = now + cfg.circuit_cooldown_seconds
    /\ cb'[b].open_until < cb[b].open_until => cb'[b].open_until = 0
    /\ cb'[b].open_until > cb[b].open_until =>
           /\ FailureReported(b)
           /\ cb'[b].open_until = now + cfg.circuit_cooldown_seconds

\* C29 as stated: every report_failure() at or above the threshold re-arms
\* open-until to the report's time + cooldown, open-until moves earlier only by
\* being cleared, and a rejecting breaker keeps rejecting until a full
\* cooldown has passed since the most recent failure report: while time
\* stands still it stays open.
C29_RejectsFullCooldown ==
    [][\A b \in Breakers :
          /\ Rearmed(b)
          /\ (Open(b) /\ now' = now) => cb'[b].open_until > now']_vars

\* C29 amended: every report_failure() at or above the threshold re-arms
\* open-until to the report's time + cooldown, open-until moves earlier only by
\* being cleared, and allow() rejects until a full cooldown has passed since
\* the most recent failure report unless a report_success() of a call already
\* in flight clears the breaker first.
C29_RearmedByEveryFailure ==
    [][\A b \in Breakers :
          /\ Rearmed(b)
          /\ (Open(b) /\ now' = now /\ ~(cb'[b].open_until > now')) =>
                /\ ev'.op = "report_success" /\ ev'.b = b
                /\ cb'[b] = ClosedBreaker
          /\ (ev' # ev /\ ev'.op = "allow" /\ ev'.b = b) =>
                (ev'.admitted <=> ~Open(b))]_vars

\* the failure of a call already in flight has extended the window of a
\* breaker that was rejecting
C29_Witness ==
    /\ ev.op = "report_failure"
    /\ ev.pre.fail_count >= cfg.circuit_fail_threshold
    /\ ev.pre.open_until > ev.at
    /\ cb[ev.b].open_until = ev.at + cfg.circuit_cooldown_seconds
    /\ cb[ev.b].open_until > ev.pre.open_until

InProgress(t) == call[t].pc \notin {"idle", "done"}

\* what an executor call ends with: the response, or one of the three errors,
\* after at most retries + 1 attempts; a call rejected by allow() made none
Ended(t) ==
    /\ call[t].result.kind \in {"Response", "UpstreamUnavailable",
                                "UpstreamTimeout", "BadUpstreamResponse"}
    /\ call[t].attempts <= cfg.retries + 1
    /\ call[t].result = CircuitOpen => call[t].attempts = 0

\* C30: under fair scheduling every executor call that has started ends, with
\* a response or with UpstreamUnavailable, UpstreamTimeout or
\* BadUpstreamResponse, after at most retries + 1 attempts, whatever the other
\* caller does; every breaker lock that is held is released.
C30_ExecutorCallTerminates ==
    /\ [](\A t \in Tasks : (Executor(t) /\ Done(t)) => Ended(t))
    /\ \A t \in Tasks : (Executor(t) /\ InProgress(t)) ~> Done(t)
    /\ \A b \in Breakers : (lock[b] # None) ~> (lock[b] = None)

\* an executor call has ended after its retries while the other caller's
\* call went through the same breaker
C30_Witness ==
    \E t, u \in Tasks :
        /\ t # u /\ Executor(t) /\ Executor(u)
        /\ Done(t) /\ Done(u)
        /\ cfg.retries = 1 /\ call[t].attempts = 2 /\ call[t].nfail > 0
        /\ call[u].result = CircuitOpen

TypeOK ==
    /\ now \in 1..MaxTime
    /\ \A b \in Breakers : cb[b].fail_count \in Nat /\ cb[b].open_until \in Nat
====
